---- MODULE Spec2Model ----
(***************************************************************************)
(* Task-assignment and validation backend (Express server over a          *)
(* relational store).  The model follows the richest variant of the       *)
(* server (src/unnamed/part_003: PostgreSQL store, Cloudinary uploads,    *)
(* e-mail notices, scoring).  Every request handler is one action: the    *)
(* authenticate middleware, the handler body and its catch clause.  The   *)
(* external collaborators (store, upload sink, mail transport) may fail:  *)
(* each action takes the call that throws as an input (fault).            *)
(*                                                                         *)
(* The users table is taken with the columns the handlers read and write  *)
(* (username, password, email, image, score); a missing score reads as 0. *)
(***************************************************************************)
EXTENDS Integers, FiniteSets, Sequences, TLC

VARIABLES users, tasks, nextId, now, session, nvalidate, mail, last, inflight

vars == <<users, tasks, nextId, now, session, nvalidate, mail, last, inflight>>

(***************************************************************************)
(* Bounds of the model.                                                    *)
(***************************************************************************)
MaxTasks == 1

MaxTime == 2

MaxValidations == 2

MaxCalls == 2

(***************************************************************************)
(* Input domains.                                                          *)
(***************************************************************************)
Usernames == {"alice", "bob"}

Passwords == {"pw1", "pw2"}

Null == "null"

\* The address a user may register with: alice gives one, bob gives none.
EmailChoice(u) == IF u = "alice" THEN "alice@mail" ELSE Null

NoFile == "nofile"

Files == {"img1"}

\* The artifacts a client uploads as proof.
ProofFiles == {"img1", "img2"}

Titles == {"t1"}

Descriptions == {"d1"}

\* due_date is free text: an ISO instant <<"iso", t>> or text that is no date.
DueDates == {<<"iso", 1>>, <<"txt", 0>>}

TaskIds == 1..MaxTasks

\* The validate requests the server may be handling at the same time.
Calls == 1..MaxCalls

Statuses == {"Approved", "Rejected", "Done"}

(***************************************************************************)
(* External primitives, as the handlers use them.                          *)
(***************************************************************************)
\* bcrypt.hash(password, 10): a digest that is not the password itself.
BcryptHash(p) == <<"bcrypt", p>>

\* Variant: the stored value is compared with the plain password.
BcryptComparePlain(p, h) == h = p

\* bcrypt.compare(password, hash)
BcryptCompare(p, h) == h = BcryptHash(p)

\* result.secure_url of an upload
SecureUrl(file) == <<"https", file>>

NullUrl == <<"null", "">>

\* expiresIn: "1h"; the clock counts hours.
ExpiresIn == 1

NoToken == [kind |-> "missing", username |-> "", iat |-> 0, exp |-> 0]

GarbageToken == [kind |-> "garbage", username |-> "", iat |-> 0, exp |-> 0]

\* jwt.sign({ username }, SECRET_KEY, { expiresIn: "1h" })
JwtSign(u, t) == [kind |-> "jwt", username |-> u, iat |-> t, exp |-> t + ExpiresIn]

\* jwt.verify(token, SECRET_KEY): the name of the error thrown, or "ok".
JwtVerify(tok, t) ==
    IF tok.kind # "jwt" THEN "JsonWebTokenError"
    ELSE IF t >= tok.exp THEN "TokenExpiredError"
    ELSE "ok"

\* new Date(text): a timestamp, or an invalid date (NaN).
DateParse(d) == IF d[1] = "iso" THEN [valid |-> TRUE, t |-> d[2]]
                ELSE [valid |-> FALSE, t |-> 0]

\* currentDate <= dueDate; a comparison with an invalid date is false.
DateLe(t, due) == due.valid /\ t <= due.t

(***************************************************************************)
(* Responses.                                                              *)
(***************************************************************************)
Response(op, auth, user, id, arg, fault, code, msg) ==
    [op |-> op, auth |-> auth, user |-> user, id |-> id, arg |-> arg,
     fault |-> fault, code |-> code, msg |-> msg,
     file |-> "", token |-> NoToken, rows |-> {}, url |-> NullUrl,
     profiles |-> << >>]

Idle == Response("idle", "n/a", "", 0, "", "none", 0, "")

NoMail == [to |-> Null, subject |-> "", creator |-> "", title |-> "",
           approver |-> "", score |-> 0]

(***************************************************************************)
(* authenticate middleware                                                 *)
(***************************************************************************)
\* Variant: every verification error is answered as an invalid token.
AuthenticateOneMessage(tok, t) ==
    IF tok.kind = "missing"
    THEN [ok |-> FALSE, code |-> 401, msg |-> "Unauthorized.", user |-> ""]
    ELSE IF JwtVerify(tok, t) = "ok"
    THEN [ok |-> TRUE, code |-> 200, msg |-> "", user |-> tok.username]
    ELSE [ok |-> FALSE, code |-> 401, msg |-> "Invalid token.", user |-> ""]

\* Variant: the token is decoded but its expiry is not checked.
AuthenticateDecodeOnly(tok, t) ==
    IF tok.kind = "missing"
    THEN [ok |-> FALSE, code |-> 401, msg |-> "Unauthorized.", user |-> ""]
    ELSE IF tok.kind = "jwt"
    THEN [ok |-> TRUE, code |-> 200, msg |-> "", user |-> tok.username]
    ELSE [ok |-> FALSE, code |-> 401, msg |-> "Invalid token.", user |-> ""]

Authenticate(tok, t) ==
    IF tok.kind = "missing"
    THEN [ok |-> FALSE, code |-> 401, msg |-> "Unauthorized.", user |-> ""]
    ELSE IF JwtVerify(tok, t) = "ok"
    THEN [ok |-> TRUE, code |-> 200, msg |-> "", user |-> tok.username]
    ELSE IF JwtVerify(tok, t) = "TokenExpiredError"
    THEN [ok |-> FALSE, code |-> 401,
          msg |-> "Token has expired. Please log in again.", user |-> ""]
    ELSE [ok |-> FALSE, code |-> 401, msg |-> "Invalid token.", user |-> ""]

\* The tokens a client can put in the Authorization header: none, text that is
\* no signed token, or the token the last login issued.
Presentable == {NoToken, GarbageToken} \cup (IF session.kind = "jwt" THEN {session} ELSE {})

\* The header of a client that sends what login gave it.
Held == {session}

\* A protected request stopped by the middleware: only the response is produced.
Rejected401(op, tok, id, arg) ==
    /\ last' = Response(op, tok.kind, "", id, arg, "none",
                        Authenticate(tok, now).code, Authenticate(tok, now).msg)
    /\ mail' = NoMail
    /\ UNCHANGED <<users, tasks, nextId, now, session, nvalidate, inflight>>

(***************************************************************************)
(* Initial state: empty tables, no token issued.                           *)
(***************************************************************************)
Init ==
    /\ users = << >>
    /\ tasks = << >>
    /\ nextId = 1
    /\ now = 0
    /\ session = NoToken
    /\ nvalidate = 0
    /\ mail = NoMail
    /\ last = Idle
    /\ inflight = << >>

\* Wall-clock time passes between requests.
Tick ==
    /\ now < MaxTime
    /\ now' = now + 1
    /\ last' = Idle
    /\ mail' = NoMail
    /\ UNCHANGED <<users, tasks, nextId, session, nvalidate, inflight>>

(***************************************************************************)
(* POST /register                                                          *)
(***************************************************************************)
UserRow(p, e, file) ==
    [password |-> BcryptHash(p), email |-> e, image |-> SecureUrl(file), score |-> 0]

RegisterResponse(u, file, fault) ==
    IF file = NoFile THEN [code |-> 400, msg |-> "No image uploaded.", fault |-> "none"]
    ELSE IF fault = "upload" THEN [code |-> 500, msg |-> "Registration failed.", fault |-> "upload"]
    ELSE IF fault = "store" THEN [code |-> 500, msg |-> "Registration failed.", fault |-> "store"]
    ELSE IF u \in DOMAIN users THEN [code |-> 500, msg |-> "Registration failed.", fault |-> "unique"]
    ELSE [code |-> 201, msg |-> "User registered successfully.", fault |-> "none"]

Register(u, p, e, file, fault) ==
    LET r == RegisterResponse(u, file, fault) IN
    /\ last' = [Response("register", "n/a", u, 0, p, r.fault, r.code, r.msg)
                  EXCEPT !.file = file,
                         !.url = IF r.code = 201 THEN SecureUrl(file) ELSE NullUrl]
    /\ users' = IF r.code = 201 THEN (u :> UserRow(p, e, file)) @@ users ELSE users
    /\ mail' = NoMail
    /\ UNCHANGED <<tasks, nextId, now, session, nvalidate, inflight>>

(***************************************************************************)
(* POST /login                                                             *)
(***************************************************************************)
\* Variant: an unknown username gets an answer of its own.
LoginResponseNamesUnknown(u, p, fault) ==
    IF fault = "store" THEN [code |-> 500, msg |-> "Internal server error.", fault |-> "store"]
    ELSE IF u \notin DOMAIN users THEN [code |-> 404, msg |-> "User not found.", fault |-> "none"]
    ELSE IF ~BcryptCompare(p, users[u].password)
    THEN [code |-> 400, msg |-> "Invalid credentials.", fault |-> "none"]
    ELSE [code |-> 200, msg |-> "", fault |-> "none"]

LoginResponse(u, p, fault) ==
    IF fault = "store" THEN [code |-> 500, msg |-> "Internal server error.", fault |-> "store"]
    ELSE IF u \notin DOMAIN users THEN [code |-> 400, msg |-> "Invalid credentials.", fault |-> "none"]
    ELSE IF ~BcryptCompare(p, users[u].password)
    THEN [code |-> 400, msg |-> "Invalid credentials.", fault |-> "none"]
    ELSE [code |-> 200, msg |-> "", fault |-> "none"]

\* The response body of login: the token on success.
LoginToken(u, p, fault) ==
    IF LoginResponse(u, p, fault).code = 200 THEN JwtSign(u, now) ELSE NoToken

Login(u, p, fault) ==
    LET r == LoginResponse(u, p, fault) IN
    /\ last' = [Response("login", "n/a", u, 0, p, r.fault, r.code, r.msg)
                  EXCEPT !.token = LoginToken(u, p, fault)]
    /\ session' = IF r.code = 200 THEN LoginToken(u, p, fault) ELSE session
    /\ mail' = NoMail
    /\ UNCHANGED <<users, tasks, nextId, now, nvalidate, inflight>>

(***************************************************************************)
(* POST /tasks                                                             *)
(***************************************************************************)
NewTask(creator, title, description, due, assignee) ==
    [title |-> title, description |-> description, due_date |-> due,
     creator |-> creator, assignee |-> assignee, status |-> "Pending",
     proof |-> NullUrl]

CreateTask(tok, title, description, due, assignee, fault) ==
    LET a == Authenticate(tok, now) IN
    /\ nextId <= MaxTasks
    /\ IF ~a.ok THEN Rejected401("createTask", tok, 0, "")
       ELSE IF fault = "store"
       THEN /\ last' = Response("createTask", tok.kind, a.user, 0, "", "store",
                                500, "Failed to create task.")
            /\ mail' = NoMail
            /\ UNCHANGED <<users, tasks, nextId, now, session, nvalidate, inflight>>
       ELSE /\ tasks' = (nextId :> NewTask(a.user, title, description, due, assignee)) @@ tasks
            /\ nextId' = nextId + 1
            /\ last' = Response("createTask", tok.kind, a.user, nextId, "", "none",
                                201, "Task created successfully.")
            /\ mail' = NoMail
            /\ UNCHANGED <<users, now, session, nvalidate, inflight>>

(***************************************************************************)
(* GET /tasks                                                              *)
(***************************************************************************)
\* Variant: the creator's tasks whatever their status.
CreatedIn(tbl, u) == {id \in DOMAIN tbl : tbl[id].creator = u}

\* SELECT * FROM tasks WHERE creator = $1 AND status = 'Pending'
PendingCreatedIn(tbl, u) ==
    {id \in DOMAIN tbl : tbl[id].creator = u /\ tbl[id].status = "Pending"}

PendingCreatedBy(u) == PendingCreatedIn(tasks, u)

ListCreated(tok, fault) ==
    LET a == Authenticate(tok, now) IN
    IF ~a.ok THEN Rejected401("listCreated", tok, 0, "")
    ELSE /\ last' = IF fault = "store"
                    THEN Response("listCreated", tok.kind, a.user, 0, "", "store",
                                  500, "Failed to fetch created tasks.")
                    ELSE [Response("listCreated", tok.kind, a.user, 0, "", "none", 200, "")
                            EXCEPT !.rows = PendingCreatedBy(a.user)]
         /\ mail' = NoMail
         /\ UNCHANGED <<users, tasks, nextId, now, session, nvalidate, inflight>>

(***************************************************************************)
(* POST /tasks/:id/proof                                                   *)
(***************************************************************************)
\* Variant: a proof already stored is kept.
SetProofOnce(id, url) ==
    IF id \in DOMAIN tasks /\ tasks[id].proof = NullUrl
    THEN [tasks EXCEPT ![id].proof = url] ELSE tasks

\* UPDATE tasks SET proof = $1 WHERE id = $2 (no row: nothing is updated)
SetProof(id, url) ==
    IF id \in DOMAIN tasks THEN [tasks EXCEPT ![id].proof = url] ELSE tasks

\* SELECT ... FROM tasks JOIN users ON tasks.creator = users.username WHERE tasks.id = $1
JoinCreator(id) ==
    IF id \in DOMAIN tasks /\ tasks[id].creator \in DOMAIN users
    THEN {[creator |-> tasks[id].creator, title |-> tasks[id].title,
           due_date |-> tasks[id].due_date, status |-> tasks[id].status,
           email |-> users[tasks[id].creator].email,
           score |-> users[tasks[id].creator].score]}
    ELSE {}

\* The address the proof notice goes to, Null when none is sent.
ProofMailTo(id) ==
    IF JoinCreator(id) = {} THEN Null ELSE (CHOOSE r \in JoinCreator(id) : TRUE).email

ProofMail(id) ==
    LET r == CHOOSE r \in JoinCreator(id) : TRUE IN
    [to |-> ProofMailTo(id), subject |-> "Task Proof Submitted - Action Required",
     creator |-> r.creator, title |-> r.title, approver |-> "", score |-> 0]

\* The catch clause of the proof handler: what is written stays written.
ProofCatch(before, after) == after

SubmitProof(tok, id, file, fault) ==
    LET a == Authenticate(tok, now)
        R(f, code, msg) == [Response("submitProof", tok.kind, a.user, id, "", f, code, msg)
                              EXCEPT !.file = file]
        Failed == "Failed to submit proof."
    IN
    IF ~a.ok THEN Rejected401("submitProof", tok, id, "")
    ELSE /\ UNCHANGED <<users, nextId, now, session, nvalidate, inflight>>
         /\ IF file = NoFile
            THEN /\ last' = R("none", 400, "No file uploaded.")
                 /\ mail' = NoMail /\ tasks' = tasks
            ELSE IF fault \in {"upload", "update"}
            THEN /\ last' = R(fault, 500, Failed)
                 /\ mail' = NoMail /\ tasks' = ProofCatch(tasks, tasks)
            ELSE IF fault = "select"
            THEN /\ last' = R(fault, 500, Failed)
                 /\ mail' = NoMail
                 /\ tasks' = ProofCatch(tasks, SetProof(id, SecureUrl(file)))
            ELSE IF ProofMailTo(id) # Null /\ fault = "mail"
            THEN /\ last' = R(fault, 500, Failed)
                 /\ mail' = NoMail
                 /\ tasks' = ProofCatch(tasks, SetProof(id, SecureUrl(file)))
            ELSE /\ last' = [R("none", 200, "Proof submitted successfully.")
                               EXCEPT !.url = SecureUrl(file)]
                 /\ mail' = IF ProofMailTo(id) # Null THEN ProofMail(id) ELSE NoMail
                 /\ tasks' = SetProof(id, SecureUrl(file))

(***************************************************************************)
(* GET /tasks/validate                                                     *)
(***************************************************************************)
\* SELECT * FROM tasks WHERE assignee = $1 AND status = 'Pending'
PendingAssignedIn(tbl, u) ==
    {id \in DOMAIN tbl : tbl[id].assignee = u /\ tbl[id].status = "Pending"}

ListAssigned(tok, fault) ==
    LET a == Authenticate(tok, now) IN
    IF ~a.ok THEN Rejected401("listAssigned", tok, 0, "")
    ELSE /\ last' = IF fault = "store"
                    THEN Response("listAssigned", tok.kind, a.user, 0, "", "store",
                                  500, "Failed to fetch tasks.")
                    ELSE [Response("listAssigned", tok.kind, a.user, 0, "", "none", 200, "")
                            EXCEPT !.rows = PendingAssignedIn(tasks, a.user)]
         /\ mail' = NoMail
         /\ UNCHANGED <<users, tasks, nextId, now, session, nvalidate, inflight>>

(***************************************************************************)
(* GET /tasks/:id/proof                                                    *)
(***************************************************************************)
\* SELECT proof FROM tasks WHERE id = $1
SelectProof(id) == IF id \in DOMAIN tasks THEN {tasks[id].proof} ELSE {}

FetchProof(tok, id, fault) ==
    LET a == Authenticate(tok, now)
        R(f, code, msg) == Response("fetchProof", tok.kind, a.user, id, "", f, code, msg)
    IN
    IF ~a.ok THEN Rejected401("fetchProof", tok, id, "")
    ELSE /\ last' = IF fault = "store" THEN R("store", 500, "Failed to fetch proof.")
                    ELSE IF SelectProof(id) = {} \/ SelectProof(id) = {NullUrl}
                    THEN R("none", 404, "Proof not found.")
                    ELSE [R("none", 200, "") EXCEPT !.url = tasks[id].proof]
         /\ mail' = NoMail
         /\ UNCHANGED <<users, tasks, nextId, now, session, nvalidate, inflight>>

(***************************************************************************)
(* PUT /tasks/:id                                                          *)
(***************************************************************************)
\* Variant: only the creator's own rows are matched.
UpdateRowsOwned(tbl, id, caller) ==
    {i \in DOMAIN tbl : i = id /\ tbl[i].creator = caller}

\* The rows UPDATE ... WHERE id = $5 matches: the caller is not consulted.
UpdateRows(tbl, id, caller) == {i \in DOMAIN tbl : i = id}

\* Variant: an edited task is opened again.
SetFieldsReopening(row, title, description, due, assignee) ==
    [row EXCEPT !.title = title, !.description = description,
                !.due_date = due, !.assignee = assignee, !.status = "Edited"]

\* SET title = $1, description = $2, due_date = $3, assignee = $4
SetFields(row, title, description, due, assignee) ==
    [row EXCEPT !.title = title, !.description = description,
                !.due_date = due, !.assignee = assignee]

\* The handler as a function of the request: the table it leaves and the response.
UpdateOutcome(tok, id, title, description, due, assignee, fault) ==
    LET a == Authenticate(tok, now)
        R(f, code, msg) == Response("updateTask", tok.kind, a.user, id, title, f, code, msg)
        hit == UpdateRows(tasks, id, a.user)
    IN
    IF ~a.ok THEN [tasks |-> tasks,
                   last |-> Response("updateTask", tok.kind, "", id, title, "none",
                                     a.code, a.msg)]
    ELSE IF fault = "store" THEN [tasks |-> tasks,
                                  last |-> R("store", 500, "Failed to update task.")]
    ELSE IF hit = {} THEN [tasks |-> tasks, last |-> R("none", 404, "Task not found.")]
    ELSE [tasks |-> [i \in DOMAIN tasks |->
                       IF i \in hit
                       THEN SetFields(tasks[i], title, description, due, assignee)
                       ELSE tasks[i]],
          last |-> [R("none", 200, "Task updated successfully.") EXCEPT !.rows = hit]]

UpdateTask(tok, id, title, description, due, assignee, fault) ==
    LET o == UpdateOutcome(tok, id, title, description, due, assignee, fault) IN
    /\ tasks' = o.tasks
    /\ last' = o.last
    /\ mail' = NoMail
    /\ UNCHANGED <<users, nextId, now, session, nvalidate, inflight>>

(***************************************************************************)
(* DELETE /tasks/:id                                                       *)
(***************************************************************************)
\* The rows DELETE ... WHERE id = $1 removes: the caller is not consulted.
DeleteRows(tbl, id, caller) == {i \in DOMAIN tbl : i = id}

DeleteOutcome(tok, id, fault) ==
    LET a == Authenticate(tok, now)
        R(f, code, msg) == Response("deleteTask", tok.kind, a.user, id, "", f, code, msg)
        hit == DeleteRows(tasks, id, a.user)
    IN
    IF ~a.ok THEN [tasks |-> tasks,
                   last |-> Response("deleteTask", tok.kind, "", id, "", "none",
                                     a.code, a.msg)]
    ELSE IF fault = "store" THEN [tasks |-> tasks,
                                  last |-> R("store", 500, "Failed to delete task.")]
    ELSE IF hit = {} THEN [tasks |-> tasks, last |-> R("none", 404, "Task not found.")]
    ELSE [tasks |-> [i \in DOMAIN tasks \ hit |-> tasks[i]],
          last |-> R("none", 200, "Task deleted successfully.")]

DeleteTask(tok, id, fault) ==
    LET o == DeleteOutcome(tok, id, fault) IN
    /\ tasks' = o.tasks
    /\ last' = o.last
    /\ mail' = NoMail
    /\ UNCHANGED <<users, nextId, now, session, nvalidate, inflight>>

(***************************************************************************)
(* POST /tasks/:id/validate                                                *)
(***************************************************************************)
\* Variant: the full bonus only strictly before the due instant.
ScoreToAddStrict(t, due) ==
    IF DateParse(due).valid /\ t < DateParse(due).t THEN 10 ELSE 5

\* const scoreToAdd = currentDate <= dueDate ? 10 : 5
ScoreToAdd(t, due) == IF DateLe(t, DateParse(due)) THEN 10 ELSE 5

ScoreToDeduct == 3

\* Variant: the decision itself is stored, as the earlier servers do.
RejectStatusStored == "Rejected"

\* The status the reject branch writes.
RejectStatus == "Pending"

SetStatus(tbl, id, status) == [tbl EXCEPT ![id].status = status]

SetScore(tbl, u, score) == [tbl EXCEPT ![u].score = score]

\* Variant: the notice names the score that was read, not the one written.
ValidationMailOldScore(row, subject, approver, newScore) ==
    [to |-> row.email, subject |-> subject, creator |-> row.creator,
     title |-> row.title, approver |-> approver, score |-> row.score]

ValidationMail(row, subject, approver, newScore) ==
    [to |-> row.email, subject |-> subject, creator |-> row.creator,
     title |-> row.title, approver |-> approver, score |-> newScore]

\* Variant: the catch clause restores the tables as they were before the call.
ValidateCatchRollback(before, after) == before

\* The catch clause of the validate handler: what is written stays written.
ValidateCatch(before, after) == after

\* The approve branch: status write, score write, notice.
Approve(id, row, approver, fault) ==
    LET newScore == row.score + ScoreToAdd(now, row.due_date)
        before == [tasks |-> tasks, users |-> users]
        w1 == [tasks |-> SetStatus(tasks, id, "Approved"), users |-> users]
        w2 == [tasks |-> w1.tasks, users |-> SetScore(users, row.creator, newScore)]
    IN
    IF fault = "write1" THEN [db |-> ValidateCatch(before, before), thrown |-> fault, mail |-> NoMail]
    ELSE IF fault = "write2" THEN [db |-> ValidateCatch(before, w1), thrown |-> fault, mail |-> NoMail]
    ELSE IF row.email # Null /\ fault = "mail"
    THEN [db |-> ValidateCatch(before, w2), thrown |-> fault, mail |-> NoMail]
    ELSE [db |-> w2, thrown |-> "none",
          mail |-> IF row.email # Null
                   THEN ValidationMail(row, "Task Approved Notification", approver, newScore)
                   ELSE NoMail]

\* The reject branch: score write, status write, notice.
Reject(id, row, approver, fault) ==
    LET newScore == row.score - ScoreToDeduct
        before == [tasks |-> tasks, users |-> users]
        w1 == [tasks |-> tasks, users |-> SetScore(users, row.creator, newScore)]
        w2 == [tasks |-> SetStatus(tasks, id, RejectStatus), users |-> w1.users]
    IN
    IF fault = "write1" THEN [db |-> ValidateCatch(before, before), thrown |-> fault, mail |-> NoMail]
    ELSE IF fault = "write2" THEN [db |-> ValidateCatch(before, w1), thrown |-> fault, mail |-> NoMail]
    ELSE IF row.email # Null /\ fault = "mail"
    THEN [db |-> ValidateCatch(before, w2), thrown |-> fault, mail |-> NoMail]
    ELSE [db |-> w2, thrown |-> "none",
          mail |-> IF row.email # Null
                   THEN ValidationMail(row, "Task Rejected Notification", approver, newScore)
                   ELSE NoMail]

\* Variant: any decision text is let through to the store.
AllowedStatusesAny == Statuses

\* ["Approved", "Rejected"].includes(status)
AllowedStatuses == {"Approved", "Rejected"}

\* The whole handler as a function of the request: the tables it leaves, the
\* notice it sends and the response.
ValidateOutcome(tok, id, status, fault) ==
    LET a == Authenticate(tok, now)
        R(f, code, msg) == Response("validate", tok.kind, a.user, id, status, f, code, msg)
        Failed == "Failed to process task validation."
        Same(resp) == [tasks |-> tasks, users |-> users, mail |-> NoMail, last |-> resp]
    IN
    IF ~a.ok THEN Same(Response("validate", tok.kind, "", id, status, "none", a.code, a.msg))
    ELSE IF status \notin AllowedStatuses THEN Same(R("none", 400, "Invalid status."))
    ELSE IF fault = "select" THEN Same(R(fault, 500, Failed))
    ELSE IF JoinCreator(id) = {} THEN Same(R("none", 404, "Task not found."))
    ELSE LET row == CHOOSE r \in JoinCreator(id) : TRUE
             out == IF status = "Approved" THEN Approve(id, row, a.user, fault)
                    ELSE Reject(id, row, a.user, fault)
         IN [tasks |-> out.db.tasks, users |-> out.db.users, mail |-> out.mail,
             last |-> IF out.thrown = "none"
                      THEN R("none", 200, "Task validation processed successfully.")
                      ELSE R(out.thrown, 500, Failed)]

Validate(tok, id, status, fault) ==
    LET o == ValidateOutcome(tok, id, status, fault) IN
    /\ nvalidate < MaxValidations
    /\ tasks' = o.tasks
    /\ users' = o.users
    /\ mail' = o.mail
    /\ last' = o.last
    /\ nvalidate' = IF o.last.code \in {200, 500} /\ o.last.fault # "select"
                    THEN nvalidate + 1 ELSE nvalidate
    /\ UNCHANGED <<nextId, now, session, inflight>>

(***************************************************************************)
(* POST /tasks/:id/validate, one awaited call at a time.  The handler      *)
(* suspends at each await, and the calls of other requests run in between: *)
(* a request is the read (with the checks before it), the first write, the *)
(* second write, and the notice with the response.  inflight[c] is what    *)
(* request c holds in its local variables.                                 *)
(***************************************************************************)
\* A request that has been answered: status code and the score delta it applied.
Answered(id, status, creator, code, delta) ==
    [pc |-> "done", id |-> id, status |-> status, approver |-> "", creator |-> creator,
     row |-> << >>, newScore |-> 0, delta |-> delta, code |-> code]

\* authenticate, the status check and the SELECT; newScore is computed from
\* the score this read returned.
ValidateRead(c, tok, id, status) ==
    LET a == Authenticate(tok, now)
        R(code, msg) == Response("validate", tok.kind, a.user, id, status, "none", code, msg)
    IN
    /\ c \notin DOMAIN inflight
    /\ mail' = NoMail
    /\ UNCHANGED <<users, tasks, nextId, now, session, nvalidate>>
    /\ IF ~a.ok
       THEN /\ last' = Response("validate", tok.kind, "", id, status, "none", a.code, a.msg)
            /\ inflight' = (c :> Answered(id, status, "", 401, 0)) @@ inflight
       ELSE IF status \notin AllowedStatuses
       THEN /\ last' = R(400, "Invalid status.")
            /\ inflight' = (c :> Answered(id, status, "", 400, 0)) @@ inflight
       ELSE IF JoinCreator(id) = {}
       THEN /\ last' = R(404, "Task not found.")
            /\ inflight' = (c :> Answered(id, status, "", 404, 0)) @@ inflight
       ELSE LET row == CHOOSE r \in JoinCreator(id) : TRUE
                delta == IF status = "Approved" THEN ScoreToAdd(now, row.due_date)
                         ELSE 0 - ScoreToDeduct
            IN /\ last' = Idle
               /\ inflight' = (c :> [pc |-> "read", id |-> id, status |-> status,
                                     approver |-> a.user, creator |-> row.creator,
                                     row |-> row, newScore |-> row.score + delta,
                                     delta |-> delta, code |-> 0]) @@ inflight

\* UPDATE ... WHERE id = $2 / WHERE username = $2 on whatever rows exist now.
WriteStatus(id, status) == IF id \in DOMAIN tasks THEN SetStatus(tasks, id, status) ELSE tasks

WriteScore(u, score) == IF u \in DOMAIN users THEN SetScore(users, u, score) ELSE users

\* Approved: the status write; Rejected: the score write.
ValidateWriteFirst(c) ==
    /\ c \in DOMAIN inflight
    /\ inflight[c].pc = "read"
    /\ IF inflight[c].status = "Approved"
       THEN /\ tasks' = WriteStatus(inflight[c].id, "Approved")
            /\ users' = users
       ELSE /\ users' = WriteScore(inflight[c].creator, inflight[c].newScore)
            /\ tasks' = tasks
    /\ inflight' = [inflight EXCEPT ![c].pc = "first"]
    /\ last' = Idle
    /\ mail' = NoMail
    /\ UNCHANGED <<nextId, now, session, nvalidate>>

\* Approved: the score write; Rejected: the status write.
ValidateWriteSecond(c) ==
    /\ c \in DOMAIN inflight
    /\ inflight[c].pc = "first"
    /\ IF inflight[c].status = "Approved"
       THEN /\ users' = WriteScore(inflight[c].creator, inflight[c].newScore)
            /\ tasks' = tasks
       ELSE /\ tasks' = WriteStatus(inflight[c].id, RejectStatus)
            /\ users' = users
    /\ inflight' = [inflight EXCEPT ![c].pc = "second"]
    /\ last' = Idle
    /\ mail' = NoMail
    /\ UNCHANGED <<nextId, now, session, nvalidate>>

\* The notice, when the row read has an address, and the 200 response.
ValidateRespond(c) ==
    LET r == inflight[c] IN
    /\ c \in DOMAIN inflight
    /\ r.pc = "second"
    /\ mail' = IF r.row.email # Null
               THEN ValidationMail(r.row,
                                   IF r.status = "Approved" THEN "Task Approved Notification"
                                   ELSE "Task Rejected Notification",
                                   r.approver, r.newScore)
               ELSE NoMail
    /\ last' = Response("validate", "jwt", r.approver, r.id, r.status, "none", 200,
                        "Task validation processed successfully.")
    /\ inflight' = [inflight EXCEPT ![c] = Answered(r.id, r.status, r.creator, 200, r.delta)]
    /\ UNCHANGED <<users, tasks, nextId, now, session, nvalidate>>

(***************************************************************************)
(* GET /user and GET /leaderboard                                          *)
(***************************************************************************)
\* Variant: SELECT * FROM users
UserColumnsAll == {"username", "password", "email", "image", "score"}

\* SELECT username, email, image, score FROM users
UserColumns == {"username", "email", "image", "score"}

\* The row of user u restricted to the selected columns.
SelectUser(u) ==
    [c \in UserColumns |-> IF c = "username" THEN u ELSE users[u][c]]

GetUser(tok, fault) ==
    LET a == Authenticate(tok, now)
        R(f, code, msg) == Response("getUser", tok.kind, a.user, 0, "", f, code, msg)
    IN
    IF ~a.ok THEN Rejected401("getUser", tok, 0, "")
    ELSE /\ last' = IF fault = "store" THEN R("store", 500, "Failed to fetch user details.")
                    ELSE IF a.user \notin DOMAIN users THEN R("none", 404, "User not found.")
                    ELSE [R("none", 200, "") EXCEPT !.profiles = <<SelectUser(a.user)>>]
         /\ mail' = NoMail
         /\ UNCHANGED <<users, tasks, nextId, now, session, nvalidate, inflight>>

\* ORDER BY score DESC: every order of the usernames in which scores do not
\* increase (rows of equal score come in either order).
Leaderboards ==
    LET n == Cardinality(DOMAIN users) IN
    {o \in [1..n -> DOMAIN users] :
        /\ \A i, j \in 1..n : i # j => o[i] # o[j]
        /\ \A i, j \in 1..n : i < j => users[o[i]].score >= users[o[j]].score}

GetLeaderboard(tok, fault) ==
    LET a == Authenticate(tok, now)
        R(f, code, msg) == Response("getLeaderboard", tok.kind, a.user, 0, "", f, code, msg)
    IN
    IF ~a.ok THEN Rejected401("getLeaderboard", tok, 0, "")
    ELSE /\ \E o \in Leaderboards :
              last' = IF fault = "store"
                      THEN R("store", 500, "Failed to fetch leaderboard data.")
                      ELSE IF DOMAIN users = {} THEN R("none", 404, "Leaderboard is empty.")
                      ELSE [R("none", 200, "")
                              EXCEPT !.profiles = [i \in DOMAIN o |-> SelectUser(o[i])]]
         /\ mail' = NoMail
         /\ UNCHANGED <<users, tasks, nextId, now, session, nvalidate, inflight>>

(***************************************************************************)
(* POST /logout                                                            *)
(***************************************************************************)
\* No middleware and no store access: the token issued by login stays valid.
Logout ==
    /\ last' = Response("logout", "n/a", "", 0, "", "none", 200, "Successfully logged out.")
    /\ mail' = NoMail
    /\ UNCHANGED <<users, tasks, nextId, now, session, nvalidate, inflight>>

(***************************************************************************)
(* The task lifecycle: registration, login, creation, the creator's list,  *)
(* proof and validation, with one password per user.                       *)
(***************************************************************************)
Next ==
    \/ Tick
    \/ \E u \in Usernames, file \in Files \cup {NoFile},
          fault \in {"none", "upload", "store"} :
          Register(u, "pw1", EmailChoice(u), file, fault)
    \/ \E u \in Usernames, fault \in {"none", "store"} : Login(u, "pw1", fault)
    \/ \E tok \in Held, title \in Titles, description \in Descriptions,
          due \in DueDates, assignee \in Usernames, fault \in {"none", "store"} :
          CreateTask(tok, title, description, due, assignee, fault)
    \/ \E tok \in Held, fault \in {"none", "store"} : ListCreated(tok, fault)
    \/ \E tok \in Held, id \in TaskIds, file \in Files \cup {NoFile},
          fault \in {"none", "upload", "update", "select", "mail"} :
          SubmitProof(tok, id, file, fault)
    \/ \E tok \in Held, id \in TaskIds, status \in Statuses,
          fault \in {"none", "select", "write1", "write2", "mail"} :
          Validate(tok, id, status, fault)

Spec == Init /\ [][Next]_vars

(***************************************************************************)
(* Credentials and tokens: registration and login with any password, and   *)
(* a protected request.                                                    *)
(***************************************************************************)
NextAuth ==
    \/ Tick
    \/ \E u \in Usernames, p \in Passwords, file \in Files \cup {NoFile},
          fault \in {"none", "upload", "store"} :
          Register(u, p, EmailChoice(u), file, fault)
    \/ \E u \in Usernames, p \in Passwords, fault \in {"none", "store"} : Login(u, p, fault)
    \/ \E tok \in Presentable, fault \in {"none", "store"} : ListCreated(tok, fault)
    \/ \E tok \in Presentable, due \in DueDates :
          CreateTask(tok, "t1", "d1", due, "bob", "none")

SpecAuth == Init /\ [][NextAuth]_vars

(***************************************************************************)
(* Validation and scores: users register and log in, create tasks, and     *)
(* validate them with either decision while any awaited call of validate   *)
(* may throw.                                                              *)
(***************************************************************************)
NextScore ==
    \/ Tick
    \/ \E u \in Usernames : Register(u, "pw1", EmailChoice(u), "img1", "none")
    \/ \E u \in Usernames : Login(u, "pw1", "none")
    \/ \E tok \in Held, due \in DueDates : CreateTask(tok, "t1", "d1", due, "bob", "none")
    \/ \E tok \in Held, id \in TaskIds, status \in {"Approved", "Rejected"},
          fault \in {"none", "select", "write1", "write2", "mail"} :
          Validate(tok, id, status, fault)

SpecScore == Init /\ [][NextScore]_vars

(***************************************************************************)
(* The task board: tasks are created, listed, edited, deleted and          *)
(* validated by whoever is logged in.  The clock stands still.             *)
(***************************************************************************)
NextBoard ==
    \/ \E u \in Usernames : Register(u, "pw1", EmailChoice(u), "img1", "none")
    \/ \E u \in Usernames : Login(u, "pw1", "none")
    \/ \E tok \in Held, assignee \in Usernames :
          CreateTask(tok, "t1", "d1", <<"iso", 1>>, assignee, "none")
    \/ \E tok \in Held, fault \in {"none", "store"} : ListCreated(tok, fault)
    \/ \E tok \in Held, fault \in {"none", "store"} : ListAssigned(tok, fault)
    \/ \E tok \in Held, id \in TaskIds, assignee \in Usernames :
          UpdateTask(tok, id, "t2", "d2", <<"txt", 0>>, assignee, "none")
    \/ \E tok \in Held, id \in TaskIds : DeleteTask(tok, id, "none")
    \/ \E tok \in Held, id \in TaskIds, status \in {"Approved", "Rejected"} :
          Validate(tok, id, status, "none")

SpecBoard == Init /\ [][NextBoard]_vars

(***************************************************************************)
(* The sqlite variant (src/app.js): users have a name and a password,      *)
(* validate stores the decision itself, and GET /tasks takes a creator     *)
(* query parameter.  Its authenticate middleware, bcrypt and jwt calls are *)
(* those of the richest variant.                                           *)
(***************************************************************************)
AppUserRow(p) == [password |-> BcryptHash(p)]

AppRegister(u, p) ==
    /\ last' = IF u \in DOMAIN users
               THEN Response("appRegister", "n/a", u, 0, p, "unique", 400, "User already exists.")
               ELSE Response("appRegister", "n/a", u, 0, p, "none", 201,
                             "User registered successfully.")
    /\ users' = IF u \in DOMAIN users THEN users ELSE (u :> AppUserRow(p)) @@ users
    /\ mail' = NoMail
    /\ UNCHANGED <<tasks, nextId, now, session, nvalidate, inflight>>

AppLogin(u, p) ==
    LET ok == u \in DOMAIN users /\ BcryptCompare(p, users[u].password) IN
    /\ last' = IF ok
               THEN [Response("appLogin", "n/a", u, 0, p, "none", 200, "")
                       EXCEPT !.token = JwtSign(u, now)]
               ELSE Response("appLogin", "n/a", u, 0, p, "none", 400, "Invalid credentials.")
    /\ session' = IF ok THEN JwtSign(u, now) ELSE session
    /\ mail' = NoMail
    /\ UNCHANGED <<users, tasks, nextId, now, nvalidate, inflight>>

AppCreateTask(tok, title, description, due, assignee) ==
    LET a == Authenticate(tok, now) IN
    /\ nextId <= MaxTasks
    /\ IF ~a.ok THEN Rejected401("appCreateTask", tok, 0, "")
       ELSE /\ tasks' = (nextId :> NewTask(a.user, title, description, due, assignee)) @@ tasks
            /\ nextId' = nextId + 1
            /\ last' = Response("appCreateTask", tok.kind, a.user, nextId, "", "none",
                                201, "Task created successfully.")
            /\ mail' = NoMail
            /\ UNCHANGED <<users, now, session, nvalidate, inflight>>

\* req.query.creator when the parameter is absent
NoOverride == ""

\* const userToFetch = otheruser || username
UserToFetch(otheruser, username) == IF otheruser = NoOverride THEN username ELSE otheruser

\* SELECT * FROM tasks WHERE assignee = ? OR creator = ? AND status = 'Pending'
\* (AND binds tighter than OR)
AppSelectTasks(tbl, u) ==
    {id \in DOMAIN tbl :
        tbl[id].assignee = u \/ (tbl[id].creator = u /\ tbl[id].status = "Pending")}

AppListTasks(tok, otheruser) ==
    LET a == Authenticate(tok, now) IN
    IF ~a.ok THEN Rejected401("appListTasks", tok, 0, otheruser)
    ELSE /\ last' = [Response("appListTasks", tok.kind, a.user, 0, otheruser, "none", 200, "")
                       EXCEPT !.rows = AppSelectTasks(tasks, UserToFetch(otheruser, a.user))]
         /\ mail' = NoMail
         /\ UNCHANGED <<users, tasks, nextId, now, session, nvalidate, inflight>>

\* UPDATE tasks SET status = ? WHERE id = ? (no row: nothing is updated)
AppValidate(tok, id, status) ==
    LET a == Authenticate(tok, now)
        R(code, msg) == Response("appValidate", tok.kind, a.user, id, status, "none", code, msg)
    IN
    IF ~a.ok THEN Rejected401("appValidate", tok, id, status)
    ELSE /\ last' = IF status \notin {"Approved", "Rejected"} THEN R(400, "Invalid status.")
                    ELSE R(200, "Task status updated successfully.")
         /\ tasks' = IF status \in {"Approved", "Rejected"} /\ id \in DOMAIN tasks
                     THEN SetStatus(tasks, id, status) ELSE tasks
         /\ mail' = NoMail
         /\ UNCHANGED <<users, nextId, now, session, nvalidate, inflight>>

NextApp ==
    \/ \E u \in Usernames : AppRegister(u, "pw1")
    \/ \E u \in Usernames : AppLogin(u, "pw1")
    \/ \E tok \in Held, due \in DueDates, assignee \in Usernames :
          AppCreateTask(tok, "t1", "d1", due, assignee)
    \/ \E tok \in Held, otheruser \in Usernames \cup {NoOverride} : AppListTasks(tok, otheruser)
    \/ \E tok \in Held, id \in TaskIds, status \in Statuses : AppValidate(tok, id, status)

SpecApp == Init /\ [][NextApp]_vars

(***************************************************************************)
(* Proofs: tasks are created and deleted, proofs are uploaded and fetched, *)
(* while the upload sink, the store and the mail transport may fail.       *)
(***************************************************************************)
NextProof ==
    \/ \E u \in Usernames : Register(u, "pw1", EmailChoice(u), "img1", "none")
    \/ \E u \in Usernames : Login(u, "pw1", "none")
    \/ \E tok \in Held, assignee \in Usernames :
          CreateTask(tok, "t1", "d1", <<"iso", 1>>, assignee, "none")
    \/ \E tok \in Held, id \in TaskIds, file \in ProofFiles \cup {NoFile},
          fault \in {"none", "upload", "update", "select", "mail"} :
          SubmitProof(tok, id, file, fault)
    \/ \E tok \in Held, id \in TaskIds, fault \in {"none", "store"} : FetchProof(tok, id, fault)
    \/ \E tok \in Held, id \in TaskIds : DeleteTask(tok, id, "none")

SpecProof == Init /\ [][NextProof]_vars

(***************************************************************************)
(* Every route once: each handler is called by whoever is logged in, with  *)
(* one set of arguments; validate takes any decision text and its first    *)
(* read may fail.  The clock stands still.                                 *)
(***************************************************************************)
NextFrame ==
    \/ \E u \in Usernames : Register(u, "pw1", EmailChoice(u), "img1", "none")
    \/ \E u \in Usernames : Login(u, "pw1", "none")
    \/ Logout
    \/ \E tok \in Held : CreateTask(tok, "t1", "d1", <<"iso", 1>>, "bob", "none")
    \/ \E tok \in Held : ListCreated(tok, "none")
    \/ \E tok \in Held : ListAssigned(tok, "none")
    \/ \E tok \in Held, id \in TaskIds : SubmitProof(tok, id, "img1", "none")
    \/ \E tok \in Held, id \in TaskIds : FetchProof(tok, id, "none")
    \/ \E tok \in Held, id \in TaskIds :
          UpdateTask(tok, id, "t2", "d2", <<"txt", 0>>, "alice", "none")
    \/ \E tok \in Held : GetUser(tok, "none")
    \/ \E tok \in Held, id \in TaskIds, status \in Statuses, fault \in {"none", "select"} :
          Validate(tok, id, status, fault)

SpecFrame == Init /\ [][NextFrame]_vars

(***************************************************************************)
(* Profiles: users register with either password, log in, earn and lose    *)
(* points, and read their profile and the leaderboard; the upload sink and *)
(* the store may fail.  The clock stands still.                            *)
(***************************************************************************)
NextProfiles ==
    \/ \E u \in Usernames, p \in Passwords, file \in Files \cup {NoFile},
          fault \in {"none", "upload", "store"} :
          Register(u, p, EmailChoice(u), file, fault)
    \/ \E u \in Usernames, p \in Passwords, fault \in {"none", "store"} : Login(u, p, fault)
    \/ \E tok \in Held : CreateTask(tok, "t1", "d1", <<"iso", 1>>, "bob", "none")
    \/ \E tok \in Held : ListCreated(tok, "none")
    \/ \E tok \in Held, id \in TaskIds, status \in {"Approved", "Rejected"} :
          Validate(tok, id, status, "none")
    \/ \E tok \in Held, fault \in {"none", "store"} : GetUser(tok, fault)
    \/ \E tok \in Held, fault \in {"none", "store"} : GetLeaderboard(tok, fault)

SpecProfiles == Init /\ [][NextProfiles]_vars

(***************************************************************************)
(* Protected routes: every route behind authenticate is requested with no  *)
(* token, with text that is no token, or with the token of the last login, *)
(* fresh or expired.  Requests that name a task name the first one.        *)
(***************************************************************************)
ProtectedOps == {"createTask", "listCreated", "listAssigned", "submitProof", "fetchProof",
                 "updateTask", "deleteTask", "validate", "getUser", "getLeaderboard"}

NextGuard ==
    \/ Tick
    \/ \E u \in Usernames : Register(u, "pw1", EmailChoice(u), "img1", "none")
    \/ \E u \in Usernames : Login(u, "pw1", "none")
    \/ \E tok \in Presentable : CreateTask(tok, "t1", "d1", <<"iso", 1>>, "bob", "none")
    \/ \E tok \in Presentable : ListCreated(tok, "none")
    \/ \E tok \in Presentable : ListAssigned(tok, "none")
    \/ \E tok \in Presentable, id \in {1} : SubmitProof(tok, id, "img1", "none")
    \/ \E tok \in Presentable, id \in {1} : FetchProof(tok, id, "none")
    \/ \E tok \in Presentable, id \in {1} :
          UpdateTask(tok, id, "t2", "d2", <<"txt", 0>>, "alice", "none")
    \/ \E tok \in Presentable, id \in {1} : DeleteTask(tok, id, "none")
    \/ \E tok \in Presentable, id \in {1} : Validate(tok, id, "Approved", "none")
    \/ \E tok \in Presentable : GetUser(tok, "none")
    \/ \E tok \in Presentable : GetLeaderboard(tok, "none")

SpecGuard == Init /\ [][NextGuard]_vars

(***************************************************************************)
(* Validations in flight: users register and log in, create tasks, and the *)
(* validate requests of whoever is logged in run one awaited call at a     *)
(* time, interleaved with each other.                                      *)
(***************************************************************************)
NextRace ==
    \/ Tick
    \/ \E u \in Usernames : Register(u, "pw1", EmailChoice(u), "img1", "none")
    \/ \E u \in Usernames : Login(u, "pw1", "none")
    \/ \E tok \in Held : CreateTask(tok, "t1", "d1", <<"iso", 1>>, "bob", "none")
    \/ \E c \in Calls, tok \in Held, id \in TaskIds, status \in {"Approved", "Rejected"} :
          ValidateRead(c, tok, id, status)
    \/ \E c \in Calls : ValidateWriteFirst(c)
    \/ \E c \in Calls : ValidateWriteSecond(c)
    \/ \E c \in Calls : ValidateRespond(c)

SpecRace == Init /\ [][NextRace]_vars

(***************************************************************************)
(* A database that was not empty: CREATE TABLE IF NOT EXISTS keeps the     *)
(* rows of earlier runs, and tasks.creator is plain text without a foreign *)
(* key, so the server may start with a task whose creator has no row in    *)
(* users (yet).                                                            *)
(***************************************************************************)
InitOrphan ==
    /\ users = << >>
    /\ tasks = (1 :> NewTask("bob", "t1", "d1", <<"iso", 1>>, "alice"))
    /\ nextId = 2
    /\ now = 0
    /\ session = NoToken
    /\ nvalidate = 0
    /\ mail = NoMail
    /\ last = Idle
    /\ inflight = << >>

NextOrphan ==
    \/ Tick
    \/ \E u \in Usernames : Register(u, "pw1", EmailChoice(u), "img1", "none")
    \/ \E u \in Usernames : Login(u, "pw1", "none")
    \/ \E tok \in Held : ListAssigned(tok, "none")
    \/ \E tok \in Held, id \in TaskIds : FetchProof(tok, id, "none")
    \/ \E tok \in Held, id \in TaskIds, status \in Statuses,
          fault \in {"none", "select", "write1", "write2", "mail"} :
          Validate(tok, id, status, fault)

SpecOrphan == InitOrphan /\ [][NextOrphan]_vars

(***************************************************************************)
(* Stored statuses: tasks are created, edited, given a proof, validated    *)
(* with any decision text (the second write of validate may fail) and      *)
(* deleted.  The clock stands still.                                       *)
(***************************************************************************)
NextStored ==
    \/ \E u \in Usernames : Register(u, "pw1", EmailChoice(u), "img1", "none")
    \/ \E u \in Usernames : Login(u, "pw1", "none")
    \/ \E tok \in Held : CreateTask(tok, "t1", "d1", <<"iso", 1>>, "bob", "none")
    \/ \E tok \in Held, id \in TaskIds :
          UpdateTask(tok, id, "t2", "d2", <<"txt", 0>>, "alice", "none")
    \/ \E tok \in Held, id \in TaskIds : SubmitProof(tok, id, "img1", "none")
    \/ \E tok \in Held, id \in TaskIds : DeleteTask(tok, id, "none")
    \/ \E tok \in Held, id \in TaskIds, status \in Statuses, fault \in {"none", "write2"} :
          Validate(tok, id, status, fault)

SpecStored == Init /\ [][NextStored]_vars

(***************************************************************************)
(* Properties of the task lifecycle (specifications Spec and SpecScore).   *)
(***************************************************************************)
ValidateAnswered(decision, code) ==
    /\ last'.op = "validate"
    /\ last'.arg = decision
    /\ last'.code = code

OthersKeepScore(c) ==
    /\ DOMAIN users' = DOMAIN users
    /\ \A o \in DOMAIN users \ {c} : users'[o] = users[o]

\* C1: a successful validate(taskId, Approved) of an existing task whose creator
\* has a user record stores status Approved and adds exactly 10 to the creator's
\* score when the current time is at or before the due date, exactly 5 when it
\* is after; no other user's score changes.
C1_ApproveAddsScore ==
    [][ValidateAnswered("Approved", 200) =>
          LET id == last'.id IN
          /\ id \in DOMAIN tasks
          /\ tasks[id].creator \in DOMAIN users
          /\ tasks'[id].status = "Approved"
          /\ LET c == tasks[id].creator
                 due == tasks[id].due_date
             IN /\ (due[1] = "iso" /\ now <= due[2]) =>
                       users'[c].score = users[c].score + 10
                /\ (due[1] = "iso" /\ now > due[2]) =>
                       users'[c].score = users[c].score + 5
                /\ OthersKeepScore(c)]_vars

\* C1 witness: a late approval has been answered 200: the task is Approved, its
\* creator holds 5 points, and a second user exists whose score is untouched.
C1_Witness ==
    /\ last.op = "validate" /\ last.arg = "Approved" /\ last.code = 200
    /\ last.id \in DOMAIN tasks
    /\ tasks[last.id].status = "Approved"
    /\ tasks[last.id].due_date[1] = "iso"
    /\ now > tasks[last.id].due_date[2]
    /\ users[tasks[last.id].creator].score = 5
    /\ Cardinality(DOMAIN users) = 2

\* C2: Approved is terminal: once a task's stored status is Approved, no later
\* validate call, whatever its decision, changes that task's status.
C2_ApprovedIsTerminal ==
    [][\A id \in DOMAIN tasks :
          (tasks[id].status = "Approved" /\ last'.op = "validate") =>
              (id \in DOMAIN tasks' /\ tasks'[id].status = "Approved")]_vars

\* C3: each successful validate(taskId, Rejected) subtracts exactly 3 from the
\* creator's score, with no floor, leaves the stored status Pending, and the
\* task is returned by listCreated(creator); so n rejections in a row subtract 3n.
C3_RejectDeductsAndReopens ==
    [][ValidateAnswered("Rejected", 200) =>
          LET id == last'.id IN
          /\ id \in DOMAIN tasks
          /\ tasks[id].creator \in DOMAIN users
          /\ LET c == tasks[id].creator
             IN /\ users'[c].score = users[c].score - 3
                /\ tasks'[id].status = "Pending"
                /\ id \in PendingCreatedIn(tasks', c)
                /\ OthersKeepScore(c)]_vars

\* C3 witness: the second rejection in a row has been answered 200: the creator's
\* score is -6 and the task is Pending and listed for its creator.
C3_Witness ==
    /\ last.op = "validate" /\ last.arg = "Rejected" /\ last.code = 200
    /\ last.id \in DOMAIN tasks
    /\ tasks[last.id].status = "Pending"
    /\ users[tasks[last.id].creator].score = -6
    /\ last.id \in PendingCreatedBy(tasks[last.id].creator)

\* C4: a failure of notification delivery never makes the triggering operation
\* report failure: when the writes of validate (or the proof write of
\* submitProof) succeeded and the mail transport fails, the response is the
\* success response.
C4_MailFailureStillSucceeds ==
    (last.op \in {"validate", "submitProof"} /\ last.fault = "mail") => last.code = 200

\* C5: when notification delivery fails during validate, the status and score
\* already written stay in the store: nothing is rolled back.
C5_MailFailureKeepsWrites ==
    [][(last'.op = "validate" /\ last'.fault = "mail") =>
          LET id == last'.id IN
          /\ id \in DOMAIN tasks
          /\ tasks[id].creator \in DOMAIN users
          /\ LET c == tasks[id].creator
                 due == tasks[id].due_date
                 late == ~(due[1] = "iso" /\ now <= due[2])
             IN IF last'.arg = "Approved"
                THEN /\ tasks'[id].status = "Approved"
                     /\ users'[c].score = users[c].score + (IF late THEN 5 ELSE 10)
                ELSE /\ tasks'[id].status = "Pending"
                     /\ users'[c].score = users[c].score - 3]_vars

\* C5 witness: an approval whose notice could not be sent has been answered;
\* the task is Approved and its creator holds the 10 points.
C5_Witness ==
    /\ last.op = "validate" /\ last.arg = "Approved" /\ last.fault = "mail"
    /\ last.id \in DOMAIN tasks
    /\ tasks[last.id].status = "Approved"
    /\ users[tasks[last.id].creator].score = 10
    /\ mail = NoMail

\* C6: when validate(taskId, Approved) has written the status and the score
\* write fails, the response differs from the response of a failure in which
\* nothing was written (here: the failure of the first read).
C6_PartialFailureDistinguishable ==
    (last.op = "validate" /\ last.arg = "Approved" /\ last.fault = "write2") =>
        LET nothing == ValidateOutcome(session, last.id, "Approved", "select").last
        IN <<last.code, last.msg>> # <<nothing.code, nothing.msg>>

\* C22: a task awards its approval bonus at most once: a validate(taskId,
\* Approved) answered 200 on a task whose stored status is already Approved
\* does not change the creator's score.
C22_BonusAtMostOnce ==
    [][(/\ last'.op = "validate" /\ last'.arg = "Approved" /\ last'.code = 200
        /\ last'.id \in DOMAIN tasks
        /\ tasks[last'.id].status = "Approved"
        /\ tasks[last'.id].creator \in DOMAIN users) =>
           users'[tasks[last'.id].creator].score = users[tasks[last'.id].creator].score]_vars

\* C23: a validate call that reports failure (500) because a store call failed
\* leaves the task's stored status and the creator's score as they were before
\* the call: it has not applied one of the two writes without the other.
C23_FailedValidateWritesNothing ==
    [][(last'.op = "validate" /\ last'.code = 500 /\ last'.fault # "mail") =>
          (tasks' = tasks /\ users' = users)]_vars

\* C26: a validate notice is sent only after both writes of the call have
\* succeeded and only to a creator with a registered e-mail address: whenever
\* a validate step sends a notice, no store call of it failed, the status and
\* the score it writes are stored, the notice goes to the creator's address,
\* and the score it names is the score that call wrote.
C26_NoticeAfterCommit ==
    [][(last'.op = "validate" /\ mail' # NoMail) =>
          LET id == last'.id IN
          /\ id \in DOMAIN tasks
          /\ tasks[id].creator \in DOMAIN users
          /\ LET c == tasks[id].creator
                 due == tasks[id].due_date
                 delta == IF last'.arg = "Rejected" THEN 0 - 3
                          ELSE IF due[1] = "iso" /\ now <= due[2] THEN 10 ELSE 5
             IN /\ last'.arg \in {"Approved", "Rejected"}
                /\ last'.fault = "none" /\ last'.code = 200
                /\ users[c].email # Null
                /\ mail'.to = users[c].email
                /\ mail'.creator = c
                /\ tasks'[id].status = IF last'.arg = "Approved" THEN "Approved" ELSE "Pending"
                /\ users'[c].score = users[c].score + delta
                /\ mail'.score = users'[c].score]_vars

\* C26 witness: a rejection notice has been sent to alice's address; it names
\* the score -3, which is the score stored for her, and her task is Pending.
C26_Witness ==
    /\ last.op = "validate" /\ last.code = 200
    /\ mail.subject = "Task Rejected Notification"
    /\ mail.to = "alice@mail"
    /\ mail.score = 0 - 3
    /\ users["alice"].score = mail.score
    /\ last.id \in DOMAIN tasks /\ tasks[last.id].status = "Pending"

(***************************************************************************)
(* Properties of credentials and tokens (specification SpecAuth).          *)
(***************************************************************************)
\* C7: register with a username that already exists (image supplied, upload and
\* store available) is answered 400 AlreadyExists and leaves the user record
\* unchanged.
C7_DuplicateRegisterIs400 ==
    [][(/\ last'.op = "register"
        /\ last'.user \in DOMAIN users
        /\ last'.file # NoFile
        /\ last'.fault \notin {"upload", "store"}) =>
           (last'.code = 400 /\ users' = users)]_vars

\* Once register(u, p) has answered 201, every later login(u, p) that the store
\* serves is answered 200 with a token for u.
LoginAfterRegister ==
    \A u \in Usernames, p \in Passwords :
        []((last.op = "register" /\ last.code = 201 /\ last.user = u /\ last.arg = p) =>
             []((last.op = "login" /\ last.user = u /\ last.arg = p /\ last.fault = "none") =>
                  (last.code = 200 /\ last.token = JwtSign(u, now))))

C9_LoginFailuresAlike ==
    /\ \A u1 \in Usernames \ DOMAIN users, u2 \in DOMAIN users,
          p1 \in Passwords, p2 \in Passwords, f \in {"none", "store"} :
          users[u2].password # BcryptHash(p2) =>
              /\ LoginResponse(u1, p1, f).code = LoginResponse(u2, p2, f).code
              /\ LoginResponse(u1, p1, f).msg = LoginResponse(u2, p2, f).msg
              /\ LoginToken(u1, p1, f) = NoToken
              /\ LoginToken(u2, p2, f) = NoToken
              /\ f = "none" => /\ LoginResponse(u1, p1, f).code = 400
                               /\ LoginResponse(u1, p1, f).msg = "Invalid credentials."
    /\ (/\ last.op = "login"
        /\ last.fault = "none"
        /\ \/ last.user \notin DOMAIN users
           \/ users[last.user].password # BcryptHash(last.arg)) =>
           (last.code = 400 /\ last.msg = "Invalid credentials." /\ last.token = NoToken)

\* C9 witness: a login of a registered user with a wrong password has been
\* answered 400 while another username is still unknown.
C9_Witness ==
    /\ last.op = "login" /\ last.code = 400
    /\ last.user \in DOMAIN users
    /\ users[last.user].password # BcryptHash(last.arg)
    /\ Usernames \ DOMAIN users # {}

\* C10: a protected request with a correctly signed token older than one hour
\* is answered 401 "Token has expired...", one with a missing or malformed
\* token 401 "Unauthorized." or "Invalid token."; the answers differ, and in
\* both cases the handler is not run (nothing is stored, no rows are returned).
C10_ExpiredAndUnauthenticated ==
    [][last'.op \in {"listCreated", "createTask"} =>
          LET stopped == /\ last'.code = 401
                         /\ last'.rows = {}
                         /\ UNCHANGED <<users, tasks, nextId>>
          IN /\ (last'.auth = "jwt" /\ now - session.iat > ExpiresIn) =>
                    (stopped /\ last'.msg = "Token has expired. Please log in again.")
             /\ last'.auth \in {"missing", "garbage"} =>
                    (stopped /\ last'.msg \in {"Unauthorized.", "Invalid token."})]_vars

\* C10 witness: a createTask request carrying a signed token issued more than
\* one hour ago has been answered 401 and no task was stored.
C10_Witness ==
    /\ last.op = "createTask" /\ last.auth = "jwt" /\ last.code = 401
    /\ session.kind = "jwt" /\ now - session.iat > ExpiresIn
    /\ last.msg = "Token has expired. Please log in again."
    /\ tasks = << >>

(***************************************************************************)
(* Properties of the task board (specification SpecBoard).                 *)
(***************************************************************************)
\* C11: every answered listCreated(u) returns exactly the stored tasks with
\* creator u and status Pending, every answered listAssigned(u) exactly those
\* with assignee u and status Pending; a task just created by u (creator taken
\* from the caller's token) is stored Pending, without proof, and is in
\* listCreated(u).
C11_ListsArePendingOfUser ==
    [][/\ (last'.op = "listCreated" /\ last'.code = 200) =>
             last'.rows = {id \in DOMAIN tasks' :
                             /\ tasks'[id].creator = session.username
                             /\ tasks'[id].status = "Pending"}
       /\ (last'.op = "listAssigned" /\ last'.code = 200) =>
             last'.rows = {id \in DOMAIN tasks' :
                             /\ tasks'[id].assignee = session.username
                             /\ tasks'[id].status = "Pending"}
       /\ (last'.op = "createTask" /\ last'.code = 201) =>
             /\ last'.id \in DOMAIN tasks' \ DOMAIN tasks
             /\ tasks'[last'.id].creator = session.username
             /\ tasks'[last'.id].status = "Pending"
             /\ tasks'[last'.id].proof = NullUrl
             /\ last'.id \in PendingCreatedIn(tasks', session.username)]_vars

\* C11 witness: alice's list of created tasks has been answered 200 and is
\* empty although the store holds a task she created: the task is Approved.
C11_Witness ==
    /\ last.op = "listCreated" /\ last.code = 200 /\ last.user = "alice"
    /\ last.rows = {}
    /\ \E id \in DOMAIN tasks :
          tasks[id].creator = "alice" /\ tasks[id].status = "Approved"

\* The parts of an outcome that the caller's identity could influence.
Visible(o) == <<o.tasks, o.last.code, o.last.msg, o.last.rows>>

\* C17: the outcome of updateTask and deleteTask depends on whether the id
\* resolves, never on the authenticated caller: whichever registered user's
\* token is presented, an existing id is overwritten (title, description, due
\* date, assignee) or removed and the call is answered 200; an unknown id is
\* answered 404 and no task changes.
C17_EditIgnoresCaller ==
    /\ [](\A id \in TaskIds, u1 \in DOMAIN users, u2 \in DOMAIN users, assignee \in Usernames :
            LET up1 == UpdateOutcome(JwtSign(u1, now), id, "t2", "d2", <<"txt", 0>>, assignee, "none")
                up2 == UpdateOutcome(JwtSign(u2, now), id, "t2", "d2", <<"txt", 0>>, assignee, "none")
                del1 == DeleteOutcome(JwtSign(u1, now), id, "none")
                del2 == DeleteOutcome(JwtSign(u2, now), id, "none")
            IN /\ Visible(up1) = Visible(up2)
               /\ Visible(del1) = Visible(del2)
               /\ IF id \in DOMAIN tasks
                  THEN /\ up1.last.code = 200
                       /\ up1.tasks = [tasks EXCEPT ![id].title = "t2",
                                                    ![id].description = "d2",
                                                    ![id].due_date = <<"txt", 0>>,
                                                    ![id].assignee = assignee]
                       /\ del1.last.code = 200
                       /\ DOMAIN del1.tasks = DOMAIN tasks \ {id}
                  ELSE /\ up1.last.code = 404 /\ up1.tasks = tasks
                       /\ del1.last.code = 404 /\ del1.tasks = tasks)
    /\ [][(last'.op \in {"updateTask", "deleteTask"} /\ last'.code # 401) =>
             IF last'.id \in DOMAIN tasks
             THEN /\ last'.code = 200
                  /\ IF last'.op = "deleteTask" THEN last'.id \notin DOMAIN tasks'
                     ELSE tasks'[last'.id].title = last'.arg
             ELSE last'.code = 404 /\ tasks' = tasks]_vars

\* C17 witness: bob's updateTask on a task created by alice has been answered
\* 200 and the new title is stored.
C17_Witness ==
    /\ last.op = "updateTask" /\ last.code = 200 /\ last.user = "bob"
    /\ last.id \in DOMAIN tasks
    /\ tasks[last.id].creator = "alice"
    /\ tasks[last.id].title = "t2"

C14_SubmitProofNotFound ==
    [][(last'.op = "submitProof" /\ last'.code # 401 /\ last'.file # NoFile) =>
          /\ (last'.id \notin DOMAIN tasks /\ last'.fault = "none") => last'.code = 404
          /\ last'.fault = "upload" => (last'.code = 500 /\ tasks' = tasks)]_vars

\* C15: a successful submitProof on a stored task sends its notice to the
\* registered e-mail address of the task's assignee, and to nobody else.
C15_ProofNoticeToAssignee ==
    [][(last'.op = "submitProof" /\ last'.code = 200 /\ last'.id \in DOMAIN tasks) =>
          LET assignee == tasks[last'.id].assignee
          IN mail'.to = IF assignee \in DOMAIN users THEN users[assignee].email ELSE Null]_vars

(***************************************************************************)
(* Properties of all routes together (specification SpecFrame).            *)
(***************************************************************************)
\* C16: a task is stored with status Pending, and the status of a stored task
\* changes only in a validate step: createTask, submitProof, updateTask, the
\* lists, fetchProof, getUser, register, login and logout leave it as it is.
C16_OnlyValidateChangesStatus ==
    [][/\ \A id \in DOMAIN tasks' \ DOMAIN tasks : tasks'[id].status = "Pending"
       /\ \A id \in DOMAIN tasks \cap DOMAIN tasks' :
             tasks'[id].status # tasks[id].status => last'.op = "validate"]_vars

\* C16 witness: an Approved task has been edited (updateTask answered 200, the
\* new title is stored) and carries a proof, and it is still Approved.
C16_Witness ==
    /\ last.op = "updateTask" /\ last.code = 200
    /\ last.id \in DOMAIN tasks
    /\ tasks[last.id].title = "t2"
    /\ tasks[last.id].proof # NullUrl
    /\ tasks[last.id].status = "Approved"

\* C19: validate with a decision outside {Approved, Rejected}, sent with a
\* token that authenticate accepts, is answered 400 "Invalid status." before
\* any store access: whether or not the task exists and whether or not the
\* store or the mail transport would fail, no task, no proof reference and no
\* score changes and no notice is sent.
C19_InvalidStatusTouchesNothing ==
    /\ [](Authenticate(session, now).ok =>
            \A id \in TaskIds, status \in Statuses \ {"Approved", "Rejected"},
               fault \in {"none", "select", "write1", "write2", "mail"} :
               LET o == ValidateOutcome(session, id, status, fault)
               IN /\ o.last.code = 400 /\ o.last.msg = "Invalid status."
                  /\ o.tasks = tasks /\ o.users = users /\ o.mail = NoMail)
    /\ [][(/\ last'.op = "validate"
           /\ last'.code # 401
           /\ last'.arg \notin {"Approved", "Rejected"}) =>
              /\ last'.code = 400 /\ last'.msg = "Invalid status."
              /\ UNCHANGED <<tasks, users>>
              /\ mail' = NoMail]_vars

\* C19 witness: a validate call with the decision "Done" on a stored task whose
\* creator is registered has been answered 400; the task is still Pending.
C19_Witness ==
    /\ last.op = "validate" /\ last.arg = "Done" /\ last.code = 400
    /\ last.id \in DOMAIN tasks
    /\ tasks[last.id].creator \in DOMAIN users
    /\ tasks[last.id].status = "Pending"
    /\ users[tasks[last.id].creator].score = 0

(***************************************************************************)
(* Properties of profiles (specification SpecProfiles).                    *)
(***************************************************************************)
\* C18: no response contains a user's password hash: the profile rows of
\* getUser and getLeaderboard have no password column, and no reference
\* returned by any operation (the image of a profile, the URL of a
\* registration or a proof) is the stored hash of any user; the token of a
\* login carries the username and its validity only.
C18_NoPasswordHashReturned ==
    /\ \A i \in DOMAIN last.profiles :
          /\ "password" \notin DOMAIN last.profiles[i]
          /\ \A u \in DOMAIN users : last.profiles[i].image # users[u].password
    /\ \A u \in DOMAIN users : last.url # users[u].password
    /\ DOMAIN last.token = {"kind", "username", "iat", "exp"}

\* C18 witness: the leaderboard has been answered 200 with the profiles of two
\* registered users, who hold different password hashes.
C18_Witness ==
    /\ last.op = "getLeaderboard" /\ last.code = 200
    /\ Len(last.profiles) = 2
    /\ last.profiles[1].score > last.profiles[2].score
    /\ users["alice"].password # users["bob"].password

(***************************************************************************)
(* Properties of the protected routes (specification SpecGuard).           *)
(***************************************************************************)
\* C20: every operation that reads or writes tasks, scores or profiles runs
\* only after authenticate accepted the request's token: a request with a
\* missing, invalid or expired token is answered 401, returns no task, proof or
\* profile, sends no notice and changes no stored task or user; and a request
\* that is answered otherwise carried a signed token that had not expired.
C20_ProtectedOpsNeedToken ==
    [][last'.op \in ProtectedOps =>
          LET accepted == last'.auth = "jwt" /\ now < session.exp
          IN /\ ~accepted =>
                   /\ last'.code = 401
                   /\ last'.rows = {} /\ last'.profiles = << >> /\ last'.url = NullUrl
                   /\ mail' = NoMail
                   /\ UNCHANGED <<users, tasks, nextId>>
             /\ last'.code # 401 => (accepted /\ last'.user = session.username)]_vars

\* C20 witness: a deleteTask request for a stored task carrying an expired token
\* has been answered 401 and the task is still stored.
C20_Witness ==
    /\ last.op = "deleteTask" /\ last.code = 401 /\ last.auth = "jwt"
    /\ now >= session.exp
    /\ last.id \in DOMAIN tasks

(***************************************************************************)
(* Properties of validations in flight (specification SpecRace).           *)
(***************************************************************************)
\* The sum of the score deltas of the answered requests in S that reported
\* success for a task of creator u.
RECURSIVE SumOfDeltas(_, _)
SumOfDeltas(S, u) ==
    IF S = {} THEN 0
    ELSE LET c == CHOOSE x \in S : TRUE
             d == IF inflight[c].code = 200 /\ inflight[c].creator = u
                  THEN inflight[c].delta ELSE 0
         IN d + SumOfDeltas(S \ {c}, u)

\* C21: under any interleaving of validate calls, once all calls have been
\* answered every creator's score is the initial score (0) plus the sum of the
\* deltas (+10, +5 or -3) of the calls that reported success: no score update
\* is lost.
C21_NoLostScoreUpdate ==
    (\A c \in DOMAIN inflight : inflight[c].pc = "done") =>
        \A u \in DOMAIN users : users[u].score = SumOfDeltas(DOMAIN inflight, u)

C25_RejectedNeverStored ==
    \A id \in DOMAIN tasks : tasks[id].status \in {"Pending", "Approved"}

\* C25 witness: a Rejected decision on an edited task that carries a proof has
\* been answered 200, and the task is stored Pending.
C25_Witness ==
    /\ last.op = "validate" /\ last.arg = "Rejected" /\ last.code = 200
    /\ last.id \in DOMAIN tasks
    /\ tasks[last.id].title = "t2"
    /\ tasks[last.id].proof # NullUrl
    /\ tasks[last.id].status = "Pending"

====
